---- MODULE Spec2Model ----
(***************************************************************************)
(* Model of the acceptance-test harness of alertmanager (package test):    *)
(* the virtual clock (expandTime), the action registry (Do), the managed   *)
(* instance lifecycle (Start / Terminate / cleanup), the orchestrator      *)
(* (Run) and the action scheduler (runActions) with one goroutine per      *)
(* registered operation.                                                   *)
(*                                                                         *)
(* Time is a discrete clock `now` counted in ticks (the unit of            *)
(* time.Duration, scaled down).  A relative time is a float64 number of    *)
(* seconds; it is modelled as a rational k / RelDenom, represented by its  *)
(* numerator k.                                                            *)
(***************************************************************************)
EXTENDS Integers, Naturals, Sequences, FiniteSets, TLC

\* ------------------------------------------------------------------ bounds
MaxAms == 2
MaxColl == 2
MaxRel == 2
MaxTime == 2
\* largest number of instances, collectors and operations one test declares
MaxObjects == 3
\* ticks per second (time.Second, scaled down) and the denominator of the
\* modelled relative times: a relative time k stands for k / RelDenom seconds.
\* RelDenom does not divide Second, so the conversion to ticks truncates
Second == 4
RelDenom == 3

\* construction and reconciliation: the calls of Do one test makes, the
\* documents written to a configuration file and the method calls made on the
\* instances, the expectations and observations of one
\* collector taken together, the tolerance, and the range of the clock
\* conversions
MaxDo == 3
MaxDoc == 2
MaxCalls == 3
MaxItems == 3
MaxTol == 1
MaxClock == 6
\* the operations of a test that shares one silence handle among them
MaxSil == 2

RelTimes == 0..MaxRel
\* the closures the harness registers: Push, SetSilence and DelSilence (the
\* last two on one silence handle), in the order a test declares them
KindOrder == <<"set", "del", "push">>
Kinds == {KindOrder[i] : i \in 1..Len(KindOrder)}
OpIds == 1..Len(KindOrder)

VARIABLES
    now,         \* wall clock, in ticks (time.Now())
    pc,          \* position of the goroutine that executes Run
    ams,         \* t.ams: sequence of managed instances
    collectors,  \* t.collectors: sequence of collectors
    actions,     \* t.actions: relative time -> sequence of registered operations
    kind,        \* the closure behind each registered operation, by operation id
    amIdx,       \* Run: index of the instance the start loop is at
    deferred,    \* Run: stack of deferred teardown closures (instance indexes)
    tdAm,        \* the instance whose deferred closure is executing (0: none)
    wake,        \* instant the Run goroutine's current time.Sleep ends
    ranged,      \* runActions: keys of t.actions already iterated
    cur,         \* runActions: key of the current iteration (-1: none)
    idx,         \* runActions: next index into fs of the current iteration
    wg,          \* runActions: the sync.WaitGroup counter
    st,          \* per operation: position of its goroutine
    res,         \* per operation: outcome of the call it made
    saw,         \* per delete operation: whether sil.ID was set when it read it
    silID,       \* sil.ID: 0 is the empty identifier, o the one returned to call o
    errors,      \* number of t.Error calls recorded on the test
    failed,      \* t.Fatalf was called (FailNow: the Run goroutine unwinds)
    collIdx,     \* Run: index of the collector the check loop is at
    doLog,       \* history: the relative time passed to each call of Do
    tolerance,   \* opts.Tolerance, as a relative time
    clk          \* the arguments and results of the clock conversions under study

vars == <<now, pc, ams, collectors, actions, kind, amIdx, deferred, tdAm, wake,
          ranged, cur, idx, wg, st, res, saw, silID, errors, failed, collIdx,
          doLog, tolerance, clk>>

\* ------------------------------------------------------------- pure helpers
\* float64 -> int64 conversion of Go: truncation toward zero
Trunc(n, d) == IF n >= 0 THEN n \div d ELSE 0 - ((0 - n) \div d)

\* opts.baseTime = time.Now() at NewAcceptanceTest: the origin of the clock
baseTime == 0

\* opts.baseTime.Add(time.Duration(rel * float64(time.Second)))
expandTime(rel) == baseTime + Trunc(rel * Second, RelDenom)

\* n / d as floating-point division gives it: the representable value nearest
\* to the quotient, the even one of two equally near (here the whole number
\* nearest to n / d, the relative times being counted in units of 1/RelDenom)
RoundDiv(n, d) ==
    LET q == n \div d
        r == n % d
    IN  IF 2 * r < d THEN q
        ELSE IF 2 * r > d THEN q + 1
        ELSE IF q % 2 = 0 THEN q ELSE q + 1

\* variant of relativeTime: the duration is divided as an integer, to whole
\* seconds, before it is converted
relativeTimeWholeSeconds(act) == ((act - baseTime) \div Second) * RelDenom

\* float64(act.Sub(opts.baseTime)) / float64(time.Second)
relativeTime(act) == RoundDiv((act - baseTime) * RelDenom, Second)

RECURSIVE SeqMax(_, _)
SeqMax(s, m) == IF s = <<>> THEN m
                ELSE SeqMax(Tail(s), IF Head(s) > m THEN Head(s) ELSE m)

SetMax(S, m) == IF \E x \in S : x > m THEN CHOOSE x \in S : \A y \in S : y <= x ELSE m

\* Collector.latest(): the largest `latest` bound over the recorded expectations
latest(coll) == SetMax({coll.expected[i][2] : i \in DOMAIN coll.expected}, 0)

\* the alert batches, compared by value
Batches == {"A", "B"}

\* the expectation e = <<earliest, latest, batch>> accepts the observation
\* ob = <<observedAt, batch>>: equal batches, and observedAt within the
\* interval widened by the tolerance on both ends
\* variant of InWindow: only the upper end of the interval is compared
InWindowUpperEnd(e, ob, tol) == ob[1] <= e[2] + tol

InWindow(e, ob, tol) == e[1] - tol <= ob[1] /\ ob[1] <= e[2] + tol

\* the candidate observations of an expectation
Candidate(e, ob, tol) == ob[2] = e[3] /\ InWindow(e, ob, tol)

\* variant of Consume: an observation stays in the pool after it was used
ConsumeNothing(pool, j) == pool

\* the pool of observations left once observation j has satisfied an expectation
Consume(pool, j) == pool \ {j}

\* the expectation matched next: the least earliest bound, the one recorded
\* first among equals
NextExpectation(exps, todo) ==
    CHOOSE x \in todo : \A y \in todo :
        exps[x][1] < exps[y][1] \/ (exps[x][1] = exps[y][1] /\ x <= y)

\* the sets of expectations the matching can report satisfied: expectations
\* in ascending order of earliest, each taking one candidate out of the pool
\* (which candidate is not determined)
RECURSIVE Match(_, _, _, _, _)
Match(exps, obs, todo, pool, tol) ==
    IF todo = {} THEN {{}}
    ELSE LET e == NextExpectation(exps, todo)
             cands == {j \in pool : Candidate(exps[e], obs[j], tol)}
         IN  IF cands = {} THEN Match(exps, obs, todo \ {e}, pool, tol)
             ELSE UNION {{S \cup {e} : S \in Match(exps, obs, todo \ {e}, Consume(pool, j), tol)}
                            : j \in cands}

\* the reports reconciliation can return for a collector
reconcile(coll, tol) ==
    {[satisfied |-> S, unsatisfied |-> DOMAIN coll.expected \ S]
        : S \in Match(coll.expected, coll.collected, DOMAIN coll.expected,
                      DOMAIN coll.collected, tol)}

Ops == 1..Len(kind)
\* the relative time an operation was registered at
AtOf(o) == CHOOSE at \in RelTimes : \E i \in 1..Len(actions[at]) : actions[at][i] = o

\* ------------------------------------------------------------ construction
\* AcceptanceTest.Alertmanager(conf): a fresh instance; its temporary
\* configuration file exists from construction on, its process is not started
\* (file: the content of the configuration file, the documents written to it
\* one after the other; doc: the document last passed to UpdateConfig, 0 for
\* none; hups: the SIGHUP signals sent to the process)
NewAm == [cmd |-> "new", started |-> FALSE, terms |-> 0, cleans |-> 0, conf |-> TRUE,
          file |-> <<>>, doc |-> 0, hups |-> 0]

Docs == 1..MaxDoc

\* am.confFile.WriteString(conf): the bytes go to the current offset of the
\* open file, which is the end of what was written through it before
WriteString(file, d) == Append(file, d)

\* variant of UpdateConfig: the new configuration is announced to the process
UpdateConfigReloads(am, d) ==
    [am EXCEPT !.file = WriteString(@, d), !.doc = d, !.hups = @ + 1]

\* Alertmanager.UpdateConfig(conf) when neither WriteString nor Sync fails
UpdateConfig(am, d) == [am EXCEPT !.file = WriteString(@, d), !.doc = d]

\* the instance AcceptanceTest.Alertmanager(conf) returns: the temporary file
\* is created, then am.UpdateConfig(conf)
Alertmanager(conf) == UpdateConfig(NewAm, conf)

\* AcceptanceTest.Collector(name) followed by the expectations declared on it
\* (expected: the expectations <<earliest, latest, batch>> in the order
\* recorded; collected: the observations <<observedAt, batch>>; report: the
\* outcome of check, sets of indices into expected)
NoReport == [satisfied |-> {}, unsatisfied |-> {}]
NewColl(exp) == [expected |-> exp, checked |-> FALSE, collected |-> <<>>, report |-> NoReport]

\* the expectations a collector of a run is built with: none, or one for a
\* single instant
ExpectSets == {<<>>} \cup {<< <<l, l, "A">> >> : l \in RelTimes}

\* AcceptanceTest.Do(at, f): append f to the operations registered at `at`
\* variant of Do: the entry of the relative time is set to the new closure
DoReplaces(acts, at, f) == [acts EXCEPT ![at] = <<f>>]

Do(acts, at, f) == [acts EXCEPT ![at] = Append(@, f)]

\* the registry after the calls Do(c[1][1], 1), ..., Do(c[n][1], n)
RECURSIVE DoAll(_, _, _)
DoAll(acts, calls, n) ==
    IF n > Len(calls) THEN acts
    ELSE DoAll(Do(acts, calls[n][1], n), calls, n + 1)

SeqsUpTo(S, n) == UNION {[1..k -> S] : k \in 0..n}

\* no clock conversion is under study
\* (r, a: a relative and an absolute time; rr: relativeTime(expandTime(r));
\* aa: expandTime(relativeTime(a)); did: which of the two has been computed)
NoClock == [r |-> 0, a |-> 0, rr |-> 0, aa |-> 0, did |-> {}]

\* the sequences of calls <<at, kind>> a test makes: at most one operation of
\* each kind, each at any relative time
Declarations ==
    { SelectSeq([i \in OpIds |->
                    IF KindOrder[i] \in K THEN <<when[KindOrder[i]], KindOrder[i]>>
                                           ELSE <<0, "">>],
                LAMBDA c : c[2] # "")
        : K \in SUBSET Kinds, when \in [Kinds -> RelTimes] }

Init ==
    /\ now = baseTime
    /\ pc = "built"
    /\ ams \in SeqsUpTo({Alertmanager(1)}, MaxAms)
    /\ collectors \in SeqsUpTo({NewColl(e) : e \in ExpectSets}, MaxColl)
    /\ \E calls \in Declarations :
          /\ Len(ams) + Len(collectors) + Len(calls) <= MaxObjects
          /\ actions = DoAll([at \in RelTimes |-> <<>>], calls, 1)
          /\ kind = [o \in 1..Len(calls) |-> calls[o][2]]
          /\ st = [o \in 1..Len(calls) |-> "none"]
          /\ res = [o \in 1..Len(calls) |-> "none"]
          /\ saw = [o \in 1..Len(calls) |-> FALSE]
          /\ doLog = [o \in 1..Len(calls) |-> calls[o][1]]
    /\ tolerance = 0
    /\ clk = NoClock
    /\ amIdx = 1
    /\ deferred = <<>>
    /\ tdAm = 0
    /\ wake = baseTime
    /\ ranged = {}
    /\ cur = -1
    /\ idx = 1
    /\ wg = 0
    /\ silID = 0
    /\ errors = 0
    /\ failed = FALSE
    /\ collIdx = 1

\* ------------------------------------------------------------------- clock
\* real time passes, at any position of any goroutine
Tick ==
    /\ now < MaxTime
    /\ now' = now + 1
    /\ UNCHANGED <<pc, ams, collectors, actions, kind, amIdx, deferred, tdAm, wake,
                   ranged, cur, idx, wg, st, res, saw, silID, errors, failed, collIdx,
                   doLog, tolerance, clk>>

\* --------------------------------------------------- Run: starting instances
mainLocals == <<amIdx, deferred, tdAm, wake, collIdx>>
schedVars == <<ranged, cur, idx, wg>>
opVars == <<st, res, saw, silID, errors>>
config == <<actions, kind, doLog, tolerance, clk>>

\* time.Sleep(100 * time.Millisecond) of Start, in ticks
WarmUp == (100 * Second) \div 1000

\* variant of StartLoopDone: the start loop stops after the first instance
StartLoopFirstOnly == amIdx > 1 \/ amIdx > Len(ams)

\* the start loop of Run has gone through every instance of t.ams
StartLoopDone == amIdx > Len(ams)

\* Run is called: control enters the start loop
RunBegin ==
    /\ pc = "built"
    /\ pc' = "start"
    /\ UNCHANGED <<now, ams, collectors, config, mainLocals, schedVars, opVars, failed>>

\* am.Start(), first half: am.cmd.Start() launches the process
StartLaunch ==
    /\ pc = "start"
    /\ ~StartLoopDone
    /\ ams' = [ams EXCEPT ![amIdx].cmd = "running"]
    /\ wake' = now + WarmUp
    /\ pc' = "warmup"
    /\ UNCHANGED <<now, collectors, config, amIdx, deferred, tdAm, collIdx,
                   schedVars, opVars, failed>>

\* variant of StartFail: the failure ends the process at once (as os.Exit
\* does), no deferred call runs
StartFailExit ==
    /\ pc = "start"
    /\ ~StartLoopDone
    /\ ams' = [ams EXCEPT ![amIdx].cmd = "failed"]
    /\ failed' = TRUE
    /\ pc' = "done"
    /\ UNCHANGED <<now, collectors, config, mainLocals, schedVars, opVars>>

\* am.Start() when am.cmd.Start() returns an error: am.t.Fatalf, which ends the
\* Run goroutine through runtime.Goexit; the deferred calls registered so far run
\* variant of StartFail: the failure is recorded with t.Errorf and the start
\* loop goes on
StartFailGoesOn ==
    /\ pc = "start"
    /\ ~StartLoopDone
    /\ ams' = [ams EXCEPT ![amIdx].cmd = "failed"]
    /\ failed' = TRUE
    /\ amIdx' = amIdx + 1
    /\ UNCHANGED <<now, pc, collectors, config, deferred, tdAm, wake, collIdx,
                   schedVars, opVars>>

StartFail ==
    /\ pc = "start"
    /\ ~StartLoopDone
    /\ ams' = [ams EXCEPT ![amIdx].cmd = "failed"]
    /\ failed' = TRUE
    /\ pc' = "defers"
    /\ UNCHANGED <<now, collectors, config, mainLocals, schedVars, opVars>>

\* am.Start(), second half: the warm-up sleep ends and Start returns; Run then
\* registers the deferred teardown of this instance and moves to the next one
StartReturn ==
    /\ pc = "warmup"
    /\ now >= wake
    /\ ams' = [ams EXCEPT ![amIdx].started = TRUE]
    /\ deferred' = <<amIdx>> \o deferred
    /\ amIdx' = amIdx + 1
    /\ pc' = "start"
    /\ UNCHANGED <<now, collectors, config, tdAm, wake, collIdx, schedVars, opVars, failed>>

\* every instance is started: Run calls t.runActions()
RunActionsCall ==
    /\ pc = "start"
    /\ StartLoopDone
    /\ pc' = "range"
    /\ UNCHANGED <<now, ams, collectors, config, mainLocals, schedVars, opVars, failed>>

\* ------------------------------------------------------------- runActions
\* the keys of the map t.actions
Keys == {at \in RelTimes : actions[at] # <<>>}

\* variant of TsOf: the offset is dropped, every goroutine sleeps until baseTime
TsOfNoOffset(o) == baseTime

\* ts := t.opts.expandTime(at) of the iteration that spawned operation o
TsOf(o) == expandTime(AtOf(o))

\* one iteration of `for at, fs := range t.actions` begins (Go iterates a map in
\* an unspecified order): wg.Add(len(fs))
RangeNext ==
    /\ pc = "range"
    /\ \E at \in Keys \ ranged :
          /\ cur' = at
          /\ ranged' = ranged \cup {at}
          /\ wg' = wg + Len(actions[at])
    /\ idx' = 1
    /\ pc' = "spawn"
    /\ UNCHANGED <<now, ams, collectors, config, mainLocals, opVars, failed>>

\* `go func(f func()) {...}(f)` for the next f of fs: its goroutine exists and
\* is about to sleep; after the last f the outer loop continues
Spawn ==
    /\ pc = "spawn"
    /\ st' = [st EXCEPT ![actions[cur][idx]] = "sleep"]
    /\ IF idx < Len(actions[cur])
         THEN idx' = idx + 1 /\ pc' = "spawn"
         ELSE idx' = 1 /\ pc' = "range"
    /\ UNCHANGED <<now, ams, collectors, config, mainLocals, ranged, cur, wg,
                   res, saw, silID, errors, failed>>

\* the range loop is over: runActions reaches wg.Wait()
RangeEnd ==
    /\ pc = "range"
    /\ Keys \subseteq ranged
    /\ pc' = "wait"
    /\ UNCHANGED <<now, ams, collectors, config, mainLocals, schedVars, opVars, failed>>

\* variant of WaitReleased: runActions does not wait for the counter
WaitReleasedNoBlock == TRUE

\* wg.Wait() blocks until the counter is zero
WaitReleased == wg = 0

\* wg.Wait() returns and so does runActions
WgWait ==
    /\ pc = "wait"
    /\ WaitReleased
    /\ pc' = "latest"
    /\ UNCHANGED <<now, ams, collectors, config, mainLocals, schedVars, opVars, failed>>

\* ------------------------------------------- the goroutine of one operation
\* variant of CanFire: the goroutine does not sleep before calling f
CanFireNoSleep(o) == st[o] = "sleep"

\* variant of CanFire: operations are called one after the other, each one
\* only once no other operation is executing
CanFireSerial(o) ==
    /\ st[o] = "sleep"
    /\ now >= TsOf(o)
    /\ \A p \in Ops : st[p] # "run"

\* time.Sleep(ts.Sub(time.Now())) has returned: a sleep lasts at least its
\* duration and a non-positive duration returns at once
\* variant of CanFire: a closure that wakes after its instant gives up
CanFireOnTimeOnly(o) == st[o] = "sleep" /\ now = TsOf(o)

CanFire(o) == st[o] = "sleep" /\ now >= TsOf(o)

\* f() is called.  A delete closure evaluates its argument sil.ID here
OpInvoke(o) ==
    /\ CanFire(o)
    /\ st' = [st EXCEPT ![o] = "run"]
    /\ saw' = [saw EXCEPT ![o] = (kind[o] = "del" /\ silID # 0)]
    /\ UNCHANGED <<now, pc, ams, collectors, config, mainLocals, schedVars,
                   res, silID, errors, failed>>

\* the delete closure of operation o passed the empty identifier to the client
MissingIdentifier(o) == kind[o] = "del" /\ ~saw[o]

\* the outcomes the call made by operation o can have: any call can fail; a
\* delete that was given the empty identifier cannot succeed
Outcomes(o) == IF MissingIdentifier(o) THEN {"err"} ELSE {"ok", "err"}

\* variant of OpReturn: the closure returns on an error without am.t.Error
OpReturnErrorDropped(o) ==
    /\ st[o] = "run"
    /\ \E r \in Outcomes(o) :
          /\ res' = [res EXCEPT ![o] = r]
          /\ silID' = IF kind[o] = "set" /\ r = "ok" THEN o ELSE silID
    /\ st' = [st EXCEPT ![o] = "ret"]
    /\ UNCHANGED <<now, pc, ams, collectors, config, mainLocals, schedVars, saw,
                   errors, failed>>

\* variant of OpReturn: an error ends the goroutines of the operations that
\* are still asleep, each with its wg.Done()
OpReturnAbortsSiblings(o) ==
    /\ st[o] = "run"
    /\ \E r \in Outcomes(o) :
          /\ res' = [res EXCEPT ![o] = r]
          /\ errors' = IF r = "err" THEN errors + 1 ELSE errors
          /\ silID' = IF kind[o] = "set" /\ r = "ok" THEN o ELSE silID
          /\ st' = [p \in Ops |->
                       IF p = o THEN "ret"
                       ELSE IF r = "err" /\ st[p] = "sleep" THEN "done" ELSE st[p]]
          /\ wg' = IF r = "err"
                      THEN wg - Cardinality({p \in Ops : p # o /\ st[p] = "sleep"})
                      ELSE wg
    /\ UNCHANGED <<now, pc, ams, collectors, config, mainLocals, ranged, cur, idx,
                   saw, failed>>

\* variant of OpReturn: a create-or-update stores what the call returned
\* before it looks at the error, the empty identifier when the call failed
OpReturnStoresBeforeCheck(o) ==
    /\ st[o] = "run"
    /\ \E r \in Outcomes(o) :
          /\ res' = [res EXCEPT ![o] = r]
          /\ errors' = IF r = "err" THEN errors + 1 ELSE errors
          /\ silID' = IF kind[o] = "set" THEN (IF r = "ok" THEN o ELSE 0) ELSE silID
    /\ st' = [st EXCEPT ![o] = "ret"]
    /\ UNCHANGED <<now, pc, ams, collectors, config, mainLocals, schedVars, saw, failed>>

\* f() returns: an error is recorded with am.t.Error and the closure returns;
\* a successful create-or-update stores the identifier, sil.ID = sid
OpReturn(o) ==
    /\ st[o] = "run"
    /\ \E r \in Outcomes(o) :
          /\ res' = [res EXCEPT ![o] = r]
          /\ errors' = IF r = "err" THEN errors + 1 ELSE errors
          /\ silID' = IF kind[o] = "set" /\ r = "ok" THEN o ELSE silID
    /\ st' = [st EXCEPT ![o] = "ret"]
    /\ UNCHANGED <<now, pc, ams, collectors, config, mainLocals, schedVars, saw, failed>>

\* variant of WgDone: a closure that recorded an error ends its goroutine
\* without reaching wg.Done()
WgDoneSkippedOnError(o) ==
    /\ st[o] = "ret"
    /\ st' = [st EXCEPT ![o] = "done"]
    /\ wg' = IF res[o] = "err" THEN wg ELSE wg - 1
    /\ UNCHANGED <<now, pc, ams, collectors, config, mainLocals, ranged, cur, idx,
                   res, saw, silID, errors, failed>>

\* wg.Done(), after which the goroutine ends
WgDone(o) ==
    /\ st[o] = "ret"
    /\ st' = [st EXCEPT ![o] = "done"]
    /\ wg' = wg - 1
    /\ UNCHANGED <<now, pc, ams, collectors, config, mainLocals, ranged, cur, idx,
                   res, saw, silID, errors, failed>>

\* ------------------------------------------ Run: deadline and reconciliation
\* variant of RunLatest: the comparison is dropped, the last collector wins
RunLatestLast ==
    IF collectors = <<>> THEN 0 ELSE latest(collectors[Len(collectors)])

\* the loop `if l := coll.latest(); l > latest { latest = l }` over
\* t.collectors, from `var latest float64`
RunLatest == SeqMax([i \in 1..Len(collectors) |-> latest(collectors[i])], 0)

\* deadline := t.opts.expandTime(latest); time.Sleep(deadline.Sub(time.Now()))
SleepBegin ==
    /\ pc = "latest"
    /\ wake' = expandTime(RunLatest)
    /\ pc' = "sleep"
    /\ UNCHANGED <<now, ams, collectors, config, amIdx, deferred, tdAm, collIdx,
                   schedVars, opVars, failed>>

\* the sleep until the deadline ends
SleepReturn ==
    /\ pc = "sleep"
    /\ now >= wake
    /\ collIdx' = 1
    /\ pc' = "check"
    /\ UNCHANGED <<now, ams, collectors, config, amIdx, deferred, tdAm, wake,
                   schedVars, opVars, failed>>

\* report := coll.check() for the next collector
CheckNext ==
    /\ pc = "check"
    /\ collIdx <= Len(collectors)
    /\ \E rep \in reconcile(collectors[collIdx], tolerance) :
          collectors' = [collectors EXCEPT ![collIdx].checked = TRUE,
                                           ![collIdx].report = rep]
    /\ collIdx' = collIdx + 1
    /\ UNCHANGED <<now, pc, ams, config, amIdx, deferred, tdAm, wake,
                   schedVars, opVars, failed>>

\* the check loop is over; Run logs the output of the instances and returns,
\* which runs the deferred calls
CheckEnd ==
    /\ pc = "check"
    /\ collIdx > Len(collectors)
    /\ pc' = "defers"
    /\ UNCHANGED <<now, ams, collectors, config, mainLocals, schedVars, opVars, failed>>

\* ------------------------------------------------------------ Run: teardown
\* the next deferred closure (last registered first) begins: am.Terminate()
\* sends SIGTERM to the process
Terminate ==
    /\ pc = "defers"
    /\ deferred # <<>>
    /\ tdAm' = Head(deferred)
    /\ deferred' = Tail(deferred)
    /\ ams' = [ams EXCEPT ![Head(deferred)].terms = @ + 1]
    /\ pc' = "cleanup"
    /\ UNCHANGED <<now, collectors, config, amIdx, wake, collIdx, schedVars, opVars, failed>>

\* am.cleanup(): os.RemoveAll(am.confFile.Name()); the closure returns
cleanup ==
    /\ pc = "cleanup"
    /\ ams' = [ams EXCEPT ![tdAm].cleans = @ + 1, ![tdAm].conf = FALSE]
    /\ tdAm' = 0
    /\ pc' = "defers"
    /\ UNCHANGED <<now, collectors, config, amIdx, deferred, wake, collIdx,
                   schedVars, opVars, failed>>

\* no deferred call is left: the Run goroutine is over
RunEnd ==
    /\ pc = "defers"
    /\ deferred = <<>>
    /\ pc' = "done"
    /\ UNCHANGED <<now, ams, collectors, config, mainLocals, schedVars, opVars, failed>>

\* ----------------------------------------------------------- specification
Next ==
    \/ Tick
    \/ RunBegin
    \/ StartLaunch
    \/ StartFail
    \/ StartReturn
    \/ RunActionsCall
    \/ RangeNext
    \/ Spawn
    \/ RangeEnd
    \/ WgWait
    \/ \E o \in Ops : OpInvoke(o)
    \/ \E o \in Ops : OpReturn(o)
    \/ \E o \in Ops : WgDone(o)
    \/ SleepBegin
    \/ SleepReturn
    \/ CheckNext
    \/ CheckEnd
    \/ Terminate
    \/ cleanup
    \/ RunEnd

Spec == Init /\ [][Next]_vars

\* the scheduling of goroutines: while the Run goroutine inside runActions or
\* a goroutine about to call wg.Done() can take a step, one of them eventually
\* does
FairSpec ==
    /\ Spec
    /\ WF_vars(RangeNext \/ Spawn \/ RangeEnd \/ WgWait \/ \E o \in Ops : WgDone(o))

\* ------------------------------------------------------------------ claims
\* operation o has been called (f() was reached by its goroutine)
Invoked(o) == st[o] \in {"run", "ret", "done"}

\* t.runActions() has returned to Run
RunActionsReturned ==
    ~failed /\ pc \in {"latest", "sleep", "check", "defers", "cleanup", "done"}

\* C1: no early firing.  An operation registered at relative time r is never
\* called at an instant earlier than expandTime(r): whenever it has been called,
\* the clock (which only moves forward) is at or past expandTime(r).
C1_NoEarlyFiring ==
    \A o \in Ops : Invoked(o) => now >= expandTime(AtOf(o))

\* an operation whose instant lay in the future when the test was built is
\* executing
C1_Witness ==
    \E o \in Ops : st[o] = "run" /\ expandTime(AtOf(o)) > baseTime

\* C2: no early return.  Once runActions has returned, every registered
\* operation has been called, has returned and its goroutine has called
\* wg.Done().
C2_NoEarlyReturn ==
    RunActionsReturned => \A o \in Ops : st[o] = "done"

\* runActions has just returned in a test with at least two operations
C2_Witness ==
    pc = "latest" /\ Len(kind) >= 2 /\ errors > 0

\* every spawned-or-not registered operation has ended while runActions is
\* still executing
AllEnded ==
    /\ pc \in {"range", "spawn", "wait"}
    /\ \A o \in Ops : st[o] \in {"ret", "done"}

C4_NoWaitOnSiblings ==
    \A o \in Ops :
        (st[o] = "sleep" /\ now >= expandTime(AtOf(o))) => ENABLED OpInvoke(o)

\* all the operations of one relative time, at least two, execute at once
C4_Witness ==
    \E at \in RelTimes :
        /\ Len(actions[at]) >= 2
        /\ \A i \in 1..Len(actions[at]) : st[actions[at][i]] = "run"

\* C5 as stated: of two operations registered at r1 < r2, the one at r1 is
\* called no later than the one at r2.
C5_InitiationOrder ==
    \A o1, o2 \in Ops :
        (AtOf(o1) < AtOf(o2) /\ Invoked(o2)) => Invoked(o1)

\* C5 amended: of two operations registered at r1 < r2, the one at r2 is never
\* called before expandTime(r1), the instant from which the one at r1 may be
\* called; the order of the two calls themselves is not enforced.
C5_LaterNotBeforeEarlierInstant ==
    \A o1, o2 \in Ops :
        (AtOf(o1) < AtOf(o2) /\ Invoked(o2)) => now >= expandTime(AtOf(o1))

\* the later operation has been called, the earlier one (whose instant lay in
\* the future when the test was built) has not
C5_Witness ==
    \E o1, o2 \in Ops :
        /\ AtOf(o1) < AtOf(o2)
        /\ expandTime(AtOf(o1)) > baseTime
        /\ Invoked(o2)
        /\ ~Invoked(o1)

\* C6: teardown always runs.  Terminate is sent at most once to an instance
\* and cleanup never precedes it; when Run is over, every instance whose Start
\* returned has received Terminate once and been cleaned up once, whatever
\* the operations recorded and whether or not a later Start failed.
C6_TeardownAlwaysRuns ==
    /\ \A i \in 1..Len(ams) : ams[i].cleans <= ams[i].terms /\ ams[i].terms <= 1
    /\ pc = "done" =>
          \A i \in 1..Len(ams) :
              ams[i].started => (ams[i].terms = 1 /\ ams[i].cleans = 1)

\* Run is over after the Start of a second instance failed, the first one
\* having been started
C6_Witness ==
    /\ pc = "done"
    /\ failed
    /\ \E i \in 1..Len(ams) : ams[i].started /\ ams[i].terms = 1

\* C7: cleanup after a failed start.  When Run is over, the configuration
\* file of an instance whose Start failed has been removed.
C7_CleanupAfterFailedStart ==
    pc = "done" =>
        \A i \in 1..Len(ams) : ams[i].cmd = "failed" => ~ams[i].conf

\* C8: phase order.  No operation is called before Start has returned for
\* every instance; no collector is checked before runActions has returned;
\* in a run where every Start succeeded, no instance receives Terminate before
\* every collector is checked, and the run ends with every operation done,
\* every collector checked and every instance terminated.
C8_PhaseOrder ==
    /\ (\E o \in Ops : Invoked(o)) => \A i \in 1..Len(ams) : ams[i].started
    /\ (\E c \in 1..Len(collectors) : collectors[c].checked) => RunActionsReturned
    /\ (~failed /\ \E i \in 1..Len(ams) : ams[i].terms > 0) =>
          \A c \in 1..Len(collectors) : collectors[c].checked
    /\ (~failed /\ pc = "done") =>
          /\ \A o \in Ops : st[o] = "done"
          /\ \A c \in 1..Len(collectors) : collectors[c].checked
          /\ \A i \in 1..Len(ams) : ams[i].terms = 1

\* a run with an instance, a collector and an operation is over, every Start
\* having succeeded
C8_Witness ==
    /\ pc = "done"
    /\ ~failed
    /\ Len(ams) >= 1
    /\ Len(collectors) >= 1
    /\ Len(kind) >= 1

\* the largest latest-expected relative time over the collectors of the test
MaxLatest ==
    LET S == {latest(collectors[c]) : c \in 1..Len(collectors)}
    IN  CHOOSE x \in S : \A y \in S : y <= x

\* C9: reconciliation waits for the deadline.  No collector, whichever it
\* is, is checked at an instant earlier than expandTime(L), L the largest
\* latest-expected relative time over all collectors.
C9_CheckAfterDeadline ==
    (\E c \in 1..Len(collectors) : collectors[c].checked) =>
        now >= expandTime(MaxLatest)

\* two collectors, the first with the larger bound, which lay in the future
\* when the test was built; the second one is checked
C9_Witness ==
    /\ Len(collectors) = 2
    /\ latest(collectors[1]) > latest(collectors[2])
    /\ expandTime(latest(collectors[1])) > baseTime
    /\ collectors[2].checked

\* C10: set-then-delete.  A delete registered at a later relative time (and
\* a later instant) than a set whose call succeeds has read the assigned
\* identifier when it was called.
C10_SetThenDelete ==
    \A s, d \in Ops :
        ( /\ kind[s] = "set"
          /\ kind[d] = "del"
          /\ AtOf(s) < AtOf(d)
          /\ expandTime(AtOf(s)) < expandTime(AtOf(d))
          /\ res[s] = "ok"
          /\ Invoked(d) ) => saw[d]

----------------------------------------------------------------------------
\* Building a test: the calls a test function makes on the AcceptanceTest and
\* on its instances before (or without) Run.

\* the state NewAcceptanceTest(t, opts) returns: nothing registered
Fresh ==
    /\ now = baseTime
    /\ pc = "built"
    /\ ams = <<>>
    /\ collectors = <<>>
    /\ actions = [at \in RelTimes |-> <<>>]
    /\ kind = <<>>
    /\ doLog = <<>>
    /\ st = <<>>
    /\ res = <<>>
    /\ saw = <<>>
    /\ amIdx = 1
    /\ deferred = <<>>
    /\ tdAm = 0
    /\ wake = baseTime
    /\ ranged = {}
    /\ cur = -1
    /\ idx = 1
    /\ wg = 0
    /\ silID = 0
    /\ errors = 0
    /\ failed = FALSE
    /\ collIdx = 1

\* t.Do(at, f), f a closure of kind k; the closures are numbered in the order
\* of the calls
DoCall(at, k) ==
    /\ Len(kind) < MaxDo
    /\ actions' = Do(actions, at, Len(kind) + 1)
    /\ kind' = Append(kind, k)
    /\ doLog' = Append(doLog, at)
    /\ st' = Append(st, "none")
    /\ res' = Append(res, "none")
    /\ saw' = Append(saw, FALSE)
    /\ UNCHANGED <<now, pc, ams, collectors, tolerance, clk, mainLocals, schedVars,
                   silID, errors, failed>>

DoInit == Fresh /\ tolerance = 0 /\ clk = NoClock

DoNext == \E at \in RelTimes, k \in Kinds : DoCall(at, k)

DoSpec == DoInit /\ [][DoNext]_vars

\* the method calls made so far on the instances, failed ones included
RECURSIVE CallsMade(_)
CallsMade(n) ==
    IF n = 0 THEN errors
    ELSE CallsMade(n - 1) + (Len(ams[n].file) - 1) + ams[n].hups + ams[n].terms
            + (IF ams[n].cmd = "new" THEN 0 ELSE 1)

MoreCalls == ~failed /\ CallsMade(Len(ams)) < MaxCalls

\* am := t.Alertmanager(conf)
AmNew(conf) ==
    /\ ~failed
    /\ Len(ams) < MaxAms
    /\ ams' = Append(ams, Alertmanager(conf))
    /\ UNCHANGED <<now, pc, collectors, config, mainLocals, schedVars, opVars, failed>>

\* am.UpdateConfig(d) returns without an error
AmUpdateConfig(i, d) ==
    /\ MoreCalls
    /\ ams' = [ams EXCEPT ![i] = UpdateConfig(@, d)]
    /\ UNCHANGED <<now, pc, collectors, config, mainLocals, schedVars, opVars, failed>>

\* am.UpdateConfig(d) when WriteString or Sync fails: am.t.Error(err); what
\* reached the file is either nothing or the document
AmUpdateConfigError(i, d) ==
    /\ MoreCalls
    /\ \E f \in {ams[i].file, WriteString(ams[i].file, d)} :
          ams' = [ams EXCEPT ![i].file = f, ![i].doc = 0]
    /\ errors' = errors + 1
    /\ UNCHANGED <<now, pc, collectors, config, mainLocals, schedVars,
                   st, res, saw, silID, failed>>

\* am.Start(): the process is launched, or t.Fatalf
AmStart(i) ==
    /\ MoreCalls
    /\ ams[i].cmd = "new"
    /\ \/ ams' = [ams EXCEPT ![i].cmd = "running"] /\ UNCHANGED failed
       \/ ams' = [ams EXCEPT ![i].cmd = "failed"] /\ failed' = TRUE
    /\ UNCHANGED <<now, pc, collectors, config, mainLocals, schedVars, opVars>>

\* syscall.Kill(am.cmd.Process.Pid, syscall.SIGHUP)
Reload(am) == [am EXCEPT !.hups = @ + 1]

\* am.Reload(), of an instance that has a process
AmReload(i) ==
    /\ MoreCalls
    /\ ams[i].cmd = "running"
    /\ ams' = [ams EXCEPT ![i] = Reload(@)]
    /\ UNCHANGED <<now, pc, collectors, config, mainLocals, schedVars, opVars, failed>>

\* am.Terminate(), of an instance that has a process
AmTerminate(i) ==
    /\ MoreCalls
    /\ ams[i].cmd = "running"
    /\ ams' = [ams EXCEPT ![i].terms = @ + 1]
    /\ UNCHANGED <<now, pc, collectors, config, mainLocals, schedVars, opVars, failed>>

AmInit == Fresh /\ tolerance = 0 /\ clk = NoClock

AmNext ==
    \/ \E conf \in Docs : AmNew(conf)
    \/ \E i \in 1..Len(ams), d \in Docs : AmUpdateConfig(i, d)
    \/ \E i \in 1..Len(ams), d \in Docs : AmUpdateConfigError(i, d)
    \/ \E i \in 1..Len(ams) : AmStart(i)
    \/ \E i \in 1..Len(ams) : AmReload(i)
    \/ \E i \in 1..Len(ams) : AmTerminate(i)

AmSpec == AmInit /\ [][AmNext]_vars

\* the times the conversions are applied to, on both sides of baseTime
ClockRange == (0 - MaxClock)..MaxClock

\* opts.relativeTime(opts.expandTime(r))
ExpandThenRelative ==
    /\ "r" \notin clk.did
    /\ clk' = [clk EXCEPT !.rr = relativeTime(expandTime(clk.r)), !.did = @ \cup {"r"}]
    /\ UNCHANGED <<now, pc, ams, collectors, actions, kind, doLog, tolerance,
                   mainLocals, schedVars, opVars, failed>>

\* opts.expandTime(opts.relativeTime(a))
RelativeThenExpand ==
    /\ "a" \notin clk.did
    /\ clk' = [clk EXCEPT !.aa = expandTime(relativeTime(clk.a)), !.did = @ \cup {"a"}]
    /\ UNCHANGED <<now, pc, ams, collectors, actions, kind, doLog, tolerance,
                   mainLocals, schedVars, opVars, failed>>

ClockInit ==
    /\ Fresh
    /\ tolerance = 0
    /\ \E r \in ClockRange, a \in ClockRange :
          clk = [NoClock EXCEPT !.r = r, !.a = baseTime + a]

ClockNext == ExpandThenRelative \/ RelativeThenExpand

ClockSpec == ClockInit /\ [][ClockNext]_vars

\* Reconciliation, for the one collector co := t.Collector(name) of a test

\* the expectations and observations recorded so far are within the bound
MoreItems ==
    /\ ~collectors[1].checked
    /\ Len(collectors[1].expected) + Len(collectors[1].collected) < MaxItems

\* expect(interval, batch)
Expect(e, l, b) ==
    /\ MoreItems
    /\ e <= l
    /\ collectors' = [collectors EXCEPT ![1].expected = Append(@, <<e, l, b>>)]
    /\ UNCHANGED <<now, pc, ams, config, mainLocals, schedVars, opVars, failed>>

\* observe(): a batch the destination received at relative time at is recorded
Observe(at, b) ==
    /\ MoreItems
    /\ collectors' = [collectors EXCEPT ![1].collected = Append(@, <<at, b>>)]
    /\ UNCHANGED <<now, pc, ams, config, mainLocals, schedVars, opVars, failed>>

\* reconcile() -> Report
Reconcile ==
    /\ ~collectors[1].checked
    /\ \E rep \in reconcile(collectors[1], tolerance) :
          collectors' = [collectors EXCEPT ![1].checked = TRUE, ![1].report = rep]
    /\ UNCHANGED <<now, pc, ams, config, mainLocals, schedVars, opVars, failed>>

CollInit ==
    /\ now = baseTime
    /\ pc = "built"
    /\ ams = <<>>
    /\ collectors = <<NewColl(<<>>)>>
    /\ actions = [at \in RelTimes |-> <<>>]
    /\ kind = <<>>
    /\ doLog = <<>>
    /\ st = <<>>
    /\ res = <<>>
    /\ saw = <<>>
    /\ amIdx = 1
    /\ deferred = <<>>
    /\ tdAm = 0
    /\ wake = baseTime
    /\ ranged = {}
    /\ cur = -1
    /\ idx = 1
    /\ wg = 0
    /\ silID = 0
    /\ errors = 0
    /\ failed = FALSE
    /\ collIdx = 1
    /\ tolerance \in 0..MaxTol
    /\ clk = NoClock

CollNext ==
    \/ \E e \in RelTimes, l \in RelTimes, b \in Batches : Expect(e, l, b)
    \/ \E at \in RelTimes, b \in Batches : Observe(at, b)
    \/ Reconcile

CollSpec == CollInit /\ [][CollNext]_vars

\* A test with one instance and one collector, whose operations, several
\* SetSilence among them, all work on one silence handle
SilInit ==
    /\ now = baseTime
    /\ pc = "built"
    /\ ams = <<Alertmanager(1)>>
    /\ collectors = <<NewColl(<<>>)>>
    /\ actions = [at \in RelTimes |-> <<>>]
    /\ kind = <<>>
    /\ doLog = <<>>
    /\ st = <<>>
    /\ res = <<>>
    /\ saw = <<>>
    /\ amIdx = 1
    /\ deferred = <<>>
    /\ tdAm = 0
    /\ wake = baseTime
    /\ ranged = {}
    /\ cur = -1
    /\ idx = 1
    /\ wg = 0
    /\ silID = 0
    /\ errors = 0
    /\ failed = FALSE
    /\ collIdx = 1
    /\ tolerance = 0
    /\ clk = NoClock

\* am.Push, am.SetSilence or am.DelSilence registers its closure with t.Do;
\* the test declares its operations in the order of their relative times
SilDeclare(at, k) ==
    /\ pc = "built"
    /\ Len(kind) < MaxSil
    /\ \A o \in Ops : doLog[o] <= at
    /\ actions' = Do(actions, at, Len(kind) + 1)
    /\ kind' = Append(kind, k)
    /\ doLog' = Append(doLog, at)
    /\ st' = Append(st, "none")
    /\ res' = Append(res, "none")
    /\ saw' = Append(saw, FALSE)
    /\ UNCHANGED <<now, pc, ams, collectors, tolerance, clk, mainLocals, schedVars,
                   silID, errors, failed>>

SilNext == (\E at \in RelTimes, k \in Kinds : SilDeclare(at, k)) \/ Next

SilSpec == SilInit /\ [][SilNext]_vars

----------------------------------------------------------------------------
\* C11: delete without an identifier.  A delete that was called while the
\* identifier of its silence was not assigned fails: once its call has
\* returned its outcome is the error, never a deletion, the error has been
\* recorded on the test, and the test has not been aborted.
C11_DeleteWithoutIdentifier ==
    \A o \in Ops :
        (kind[o] = "del" /\ ~saw[o] /\ st[o] \in {"ret", "done"}) =>
            /\ res[o] = "err"
            /\ errors >= 1
            /\ ~failed

\* the only operation of a test is a delete, it was called with no identifier
\* assigned, and Run went on to its end
C11_Witness ==
    /\ pc = "done"
    /\ Len(kind) = 1
    /\ kind[1] = "del"
    /\ ~saw[1]
    /\ res[1] = "err"
    /\ errors = 1

\* C12: failure isolation.  Each call of push, set or delete that fails
\* records exactly one error on the test (the errors recorded are as many as
\* the calls that failed), and a failure stops no other operation: when
\* runActions has returned every registered operation has been called and
\* has returned.
C12_FailureIsolation ==
    /\ errors = Cardinality({o \in Ops : res[o] = "err"})
    /\ RunActionsReturned => \A o \in Ops : st[o] = "done" /\ res[o] # "none"

\* of three operations the one at the earliest instant failed, the other two
\* were called after it had failed, and one of them succeeded
C12_Witness ==
    /\ RunActionsReturned
    /\ Len(kind) = 3
    /\ errors >= 1
    /\ \E o \in Ops :
          /\ res[o] = "err"
          /\ \A p \in Ops \ {o} : TsOf(p) > TsOf(o)
          /\ \E p \in Ops \ {o} : res[p] = "ok"

\* C13: every registered operation is called exactly once.  An operation is
\* called only out of its sleep and never sleeps again, so it is called at
\* most once; when runActions has returned each one has been called; a
\* closure whose instant is already past is called at once, with no further
\* wait; and the step that calls it records no error and aborts nothing.
C13_InvokedExactlyOnce ==
    /\ [](RunActionsReturned => \A o \in Ops : Invoked(o))
    /\ [](\A o \in Ops : (st[o] = "sleep" /\ now > TsOf(o)) => ENABLED OpInvoke(o))
    /\ [][\A o \in Ops :
            /\ (st[o] # st'[o] /\ st'[o] = "run") => st[o] = "sleep"
            /\ Invoked(o) => st'[o] \notin {"none", "sleep"}
            /\ (st[o] = "sleep" /\ st'[o] = "run") =>
                   errors' = errors /\ failed' = failed]_vars

\* an instance was started after the instant of an operation had passed, and
\* the operation is executing with no error recorded
C13_Witness ==
    /\ pc = "wait"
    /\ Len(ams) >= 1
    /\ errors = 0
    /\ \E o \in Ops : st[o] = "run" /\ wake > TsOf(o)

\* C20: a failed start aborts the run.  Once Start has failed for an
\* instance, no operation is ever spawned or called, no collector is checked,
\* no instance later in the start order is started, and Run is only tearing
\* down the instances it had started.
C20_FailedStartAborts ==
    failed =>
        /\ \A o \in Ops : st[o] = "none"
        /\ \A c \in 1..Len(collectors) : ~collectors[c].checked
        /\ \E i \in 1..Len(ams) :
              /\ ams[i].cmd = "failed"
              /\ \A j \in 1..Len(ams) : j > i => ams[j].cmd = "new"
        /\ pc \in {"defers", "cleanup", "done"}

\* the first of two instances failed to start and Run has ended; an
\* operation and the second instance were never touched
C20_Witness ==
    /\ failed
    /\ pc = "done"
    /\ Len(ams) = 2
    /\ Len(kind) >= 1
    /\ ams[1].cmd = "failed"
    /\ ams[2].cmd = "new"

\* the closures registered by the first n calls of Do with relative time r,
\* in the order of the calls
RECURSIVE PassedWith(_, _)
PassedWith(r, n) ==
    IF n = 0 THEN <<>>
    ELSE IF doLog[n] = r THEN Append(PassedWith(r, n - 1), n)
         ELSE PassedWith(r, n - 1)

\* C14: scheduling accumulates.  After any sequence of calls of Do the
\* closures registered at each relative time r are exactly those passed with
\* r, one entry per call in the order of the calls; and a call of Do changes
\* the entries of one relative time only, by adding its closure at the end.
C14_DoAccumulates ==
    /\ [](\A r \in RelTimes : actions[r] = PassedWith(r, Len(doLog)))
    /\ [][\A r \in RelTimes :
            actions'[r] # actions[r] =>
                /\ actions'[r] = Append(actions[r], Len(doLog'))
                /\ \A q \in RelTimes \ {r} : actions'[q] = actions[q]]_vars

\* three calls of Do, two of them with the same relative time
C14_Witness ==
    /\ Len(doLog) = 3
    /\ \E r, q \in RelTimes :
          r # q /\ Len(actions[r]) = 2 /\ Len(actions[q]) = 1

\* C15: UpdateConfig persists the document.  Whenever the last call of
\* UpdateConfig on an instance returned without an error, the content of the
\* configuration file of the instance is the document of that call.
C15_ContentIsLastDocument ==
    \A i \in 1..Len(ams) : ams[i].doc # 0 => ams[i].file = <<ams[i].doc>>

\* C19: reconfiguring does not reload.  A step that changes the
\* configuration file of an instance sends it no signal and leaves its
\* process state as it is; a step that sends SIGHUP sends one, sends no
\* SIGTERM and touches neither the file nor the process state; a step that
\* sends SIGTERM sends no SIGHUP; and each of them leaves every other
\* instance alone.
C19_UpdateConfigDoesNotReload ==
    [][\A i \in 1..Len(ams) :
          /\ ams'[i].file # ams[i].file =>
                /\ ams'[i].hups = ams[i].hups
                /\ ams'[i].terms = ams[i].terms
                /\ ams'[i].cmd = ams[i].cmd
                /\ ams'[i].started = ams[i].started
          /\ ams'[i].hups # ams[i].hups =>
                /\ ams'[i].hups = ams[i].hups + 1
                /\ ams'[i].terms = ams[i].terms
                /\ ams'[i].file = ams[i].file
                /\ ams'[i].cmd = ams[i].cmd
          /\ ams'[i].terms # ams[i].terms => ams'[i].hups = ams[i].hups
          /\ ams'[i] # ams[i] =>
                \A j \in 1..Len(ams) : j # i => ams'[j] = ams[j]]_vars

\* a running instance that was reloaded once and given a new configuration
\* once has received the one SIGHUP of the reload and no SIGTERM
C19_Witness ==
    \E i \in 1..Len(ams) :
        /\ ams[i].cmd = "running"
        /\ ams[i].hups = 1
        /\ ams[i].terms = 0
        /\ Len(ams[i].file) = 2

\* the relative time r is a whole number of clock ticks
WholeTicks(r) == (r * Second) % RelDenom = 0

\* the distance of the absolute time a from baseTime is representable as a
\* relative time
ExactRelative(a) == ((a - baseTime) * RelDenom) % Second = 0

\* C18 as stated: relativeTime(expandTime(r)) = r for every r that is a whole
\* number of ticks, and expandTime(relativeTime(a)) = a for every absolute
\* time a.
C18_ClockRoundTrip ==
    /\ ("r" \in clk.did /\ WholeTicks(clk.r)) => clk.rr = clk.r
    /\ "a" \in clk.did => clk.aa = clk.a

\* C18, amended: relativeTime(expandTime(r)) = r for every r that is a whole
\* number of ticks; expandTime(relativeTime(a)) is a when the distance of a
\* from baseTime is representable as a relative time, and otherwise a or the
\* instant one tick nearer to baseTime.
C18_RoundTripWithinOneTick ==
    /\ ("r" \in clk.did /\ WholeTicks(clk.r)) => clk.rr = clk.r
    /\ "a" \in clk.did =>
          /\ ExactRelative(clk.a) => clk.aa = clk.a
          /\ clk.a >= baseTime => clk.aa \in {clk.a - 1, clk.a}
          /\ clk.a <= baseTime => clk.aa \in {clk.a, clk.a + 1}

\* both round trips were made: a relative time of a whole number of ticks,
\* not zero, came back as it was, and an absolute time came back one tick
\* nearer to baseTime
C18_Witness ==
    /\ clk.did = {"r", "a"}
    /\ clk.r # 0
    /\ WholeTicks(clk.r)
    /\ clk.rr = clk.r
    /\ clk.a > baseTime
    /\ clk.aa = clk.a - 1

\* the collector of a reconciliation, its expectations and its observations
co == collectors[1]

\* observation j has the batch of expectation e and lies within the interval
\* of e widened by tol on both ends
Within(e, j, tol) ==
    /\ co.collected[j][2] = co.expected[e][3]
    /\ co.collected[j][1] >= co.expected[e][1] - tol
    /\ co.collected[j][1] <= co.expected[e][2] + tol

\* C16: tolerance-widened matching.  After reconciliation every expectation
\* is reported either satisfied or unsatisfied; one reported satisfied has an
\* observation of an equal batch within its interval widened by the tolerance
\* on both ends, so that an observation outside the widened interval
\* satisfies nothing; and the only expectation of a collector is satisfied as
\* soon as there is such an observation.
C16_ToleranceWidenedMatching ==
    co.checked =>
        /\ co.report.satisfied \cup co.report.unsatisfied = DOMAIN co.expected
        /\ co.report.satisfied \cap co.report.unsatisfied = {}
        /\ \A e \in co.report.satisfied :
              \E j \in DOMAIN co.collected : Within(e, j, tolerance)
        /\ (Len(co.expected) = 1 /\ \E j \in DOMAIN co.collected : Within(1, j, tolerance))
              => co.report.satisfied = {1}

\* with a tolerance above zero, an expectation is satisfied by an
\* observation that lies outside its interval and inside the widened one,
\* and another is unsatisfied with an observation of its batch outside its
\* widened interval
C16_Witness ==
    /\ co.checked
    /\ tolerance > 0
    /\ \E e \in co.report.satisfied :
          /\ \A j \in DOMAIN co.collected : ~Within(e, j, 0)
          /\ \E j \in DOMAIN co.collected : Within(e, j, tolerance)
    /\ \E e \in co.report.unsatisfied :
          \E j \in DOMAIN co.collected :
              co.collected[j][2] = co.expected[e][3] /\ ~Within(e, j, tolerance)

\* C17: one-to-one consumption.  The expectations reported satisfied can be
\* paired with observations, each with one of its own within its widened
\* interval and no observation used twice; the satisfied expectations are
\* therefore never more than the observations.
C17_OneToOneConsumption ==
    co.checked =>
        /\ Cardinality(co.report.satisfied) <= Len(co.collected)
        /\ \E f \in [co.report.satisfied -> DOMAIN co.collected] :
              /\ \A e \in co.report.satisfied : Within(e, f[e], tolerance)
              /\ \A e1, e2 \in co.report.satisfied : e1 # e2 => f[e1] # f[e2]

\* two expectations of the same batch at intervals that do not overlap, and
\* one observation that lies within both widened intervals: one expectation
\* is reported satisfied, the other unsatisfied
C17_Witness ==
    /\ co.checked
    /\ Len(co.expected) = 2
    /\ Len(co.collected) = 1
    /\ co.expected[1][3] = co.expected[2][3]
    /\ co.expected[1][2] < co.expected[2][1]
    /\ Within(1, 1, tolerance)
    /\ Within(2, 1, tolerance)
    /\ Cardinality(co.report.satisfied) = 1
    /\ Cardinality(co.report.unsatisfied) = 1

\* operation o returns from its call in this step
Returns(o) == st[o] = "run" /\ st'[o] = "ret"

\* C21: single writer of the silence identifier.  The identifier changes
\* only in the step in which a SetSilence operation returns from a call that
\* succeeded, and becomes the identifier returned to that call; a SetSilence
\* operation whose call failed records one error and leaves the identifier
\* as it was; no step of a Push or DelSilence operation changes it.
C21_SingleWriter ==
    [][/\ silID' # silID =>
            \E o \in Ops : kind[o] = "set" /\ Returns(o) /\ res'[o] = "ok" /\ silID' = o
       /\ \A o \in Ops :
            /\ (kind[o] = "set" /\ Returns(o) /\ res'[o] = "err") =>
                  silID' = silID /\ errors' = errors + 1
            /\ (kind[o] # "set" /\ st'[o] # st[o]) => silID' = silID]_vars

\* of two SetSilence operations on the handle one succeeded and one failed,
\* both have ended, and the handle holds the identifier of the one that
\* succeeded
C21_Witness ==
    /\ pc = "done"
    /\ \E a, b \in Ops :
          /\ kind[a] = "set" /\ kind[b] = "set"
          /\ res[a] = "ok" /\ res[b] = "err"
          /\ silID = a
          /\ errors = 1

====
